---- MODULE Spec2Model ----
(***************************************************************************)
(* Model of app.py: the Streamlit jurisprudence search application.        *)
(*   - Python values are tagged records [t, v].                            *)
(*   - The pure helpers (format_themes_inline, create_decision_url,        *)
(*     extract_decision_id_from_title, the result-record construction) are *)
(*     operators computed as the code computes them.                       *)
(*   - main() is a state machine per Streamlit session; the remote calls   *)
(*     (Qdrant, OpenAI) are the points where sessions interleave.          *)
(***************************************************************************)
EXTENDS Integers, Sequences, FiniteSets, TLC

VARIABLES
    fnName,        \* helper specifications: the function under check
    fnArg,         \* its argument
    fnRet,         \* NotCalled, or the outcome of the call
    collections,   \* the collection names the Qdrant cluster holds
    cache,         \* st.cache_resource entry of get_searcher: 0, or the handle
    lock,          \* the cache's compute lock: 0, or the session holding it
    handles,       \* QdrantClient objects constructed so far
    checks,        \* get_collections calls made so far
    clicks,        \* search requests started so far
    pc,            \* per session: where its script run stands
    query,         \* per session: the text of the text area
    limit,         \* per session: the limit passed to search_similar_decisions
    searcher,      \* per session: the searcher get_searcher returned, or 0
    vector,        \* per session: the query vector, or NoVector
    calls,         \* per session: the remote calls of the current request
    search_result, \* per session: what client.search returned
    ret,           \* per session: outcome of the try body up to the display
    messages,      \* per session: st.warning / st.error / st.success shown
    shown          \* per session: the result expanders written, in order

fnVars == <<fnName, fnArg, fnRet>>
appVars ==
    <<collections, cache, lock, handles, checks, clicks, pc, query, limit,
      searcher, vector, calls, search_result, ret, messages, shown>>
vars == <<fnVars, appVars>>

(***************************************************************************)
(* Bounds of the model.                                                    *)
(***************************************************************************)
MaxThemes == 3     \* longest theme list drawn
MaxKeys == 2       \* most keys present in a drawn payload
MaxFrags == 3      \* most fragments a drawn title is made of
NumSessions == 2   \* Streamlit sessions (script threads) of the process
MaxClicks == 3     \* search requests started over the process's life
MaxIndex == 3      \* most stored records matching a query
MaxLimit == 3      \* largest limit drawn for a direct retrieval

(***************************************************************************)
(* Configuration constants of app.py.                                      *)
(***************************************************************************)
COLLECTION_NAME == "blocs_motivation"
VECTOR_SIZE == 256
DEFAULT_LIMIT == 10
MAIN_LIMIT == 10     \* main: search_similar_decisions(query, limit=10)

(***************************************************************************)
(* Python values.                                                          *)
(***************************************************************************)
PyNone == [t |-> "None", v |-> ""]
PyStr(s) == [t |-> "str", v |-> s]
PyInt(n) == [t |-> "int", v |-> n]
PyFloat(n) == [t |-> "float", v |-> n]
PyBool(b) == [t |-> "bool", v |-> b]
PyList(q) == [t |-> "list", v |-> q]
PyDict(f) == [t |-> "dict", v |-> f]

EmptyMapping == [k \in {} |-> PyNone]

\* bool(x): Python truthiness, as `if not themes`, `if decision_id`, `if query`.
Truthy(x) ==
    CASE x.t = "None" -> FALSE
      [] x.t = "str" -> x.v # ""
      [] x.t = "int" -> x.v # 0
      [] x.t = "float" -> x.v # 0
      [] x.t = "bool" -> x.v
      [] x.t = "list" -> Len(x.v) > 0
      [] x.t = "dict" -> DOMAIN x.v # {}

DigitStr == <<"0", "1", "2", "3", "4", "5", "6", "7", "8", "9">>

\* str(x) for the values the model draws (ints are single digits).
py_str(x) ==
    CASE x.t = "None" -> "None"
      [] x.t = "str" -> x.v
      [] x.t = "int" -> DigitStr[x.v + 1]
      [] x.t = "bool" -> IF x.v THEN "True" ELSE "False"
      [] x.t = "dict" -> "{}"
      [] x.t = "list" -> "[]"

\* The outcome of a call: a returned value or a raised exception.
Return(val) == [raised |-> FALSE, value |-> val, exc |-> ""]
Raise(e) == [raised |-> TRUE, value |-> PyNone, exc |-> e]
NotCalled == [raised |-> FALSE, value |-> PyNone, exc |-> "not called"]

SENTINEL == "Non renseigné"

RECURSIVE JoinStrings(_, _)
JoinStrings(sep, q) ==
    IF Len(q) = 0 THEN ""
    ELSE IF Len(q) = 1 THEN q[1].v
    ELSE q[1].v \o sep \o JoinStrings(sep, Tail(q))

\* sep.join(q): TypeError when an item is not a str.
str_join(sep, q) ==
    IF \E i \in 1..Len(q) : q[i].t # "str"
    THEN Raise("TypeError")
    ELSE Return(PyStr(JoinStrings(sep, q)))

format_themes_inline(themes) ==
    IF ~Truthy(themes) THEN Return(PyStr(SENTINEL))
    ELSE IF themes.t = "list"
         THEN IF Len(themes.v) = 0 THEN Return(PyStr(SENTINEL))
              ELSE str_join(", ", themes.v)
         ELSE Return(PyStr(py_str(themes)))

URL_PREFIX == "https://www.courdecassation.fr/decision/"

create_decision_url(decision_id) ==
    IF Truthy(decision_id) /\ decision_id # PyStr(SENTINEL)
    THEN PyStr(URL_PREFIX \o py_str(decision_id))
    ELSE PyNone

(***************************************************************************)
(* Result records: the loop of search_similar_decisions.                   *)
(***************************************************************************)
\* The payload keys read by the loop, and the keys of the record it builds.
PayloadKeys ==
    {"unique_ID", "number", "ecli", "jurisdiction", "chamber", "formation",
     "type", "decision_date", "localisation", "solution", "theme", "themes",
     "publication", "summary", "zones", "visa", "rapprochements", "files"}

ResultKeys ==
    {"score", "decision_id", "number", "ecli", "jurisdiction", "chamber",
     "formation", "type", "decision_date", "localisation", "solution",
     "theme", "themes", "publication", "summary", "zones", "visa",
     "rapprochements", "files"}

\* The payload key a record key is read from.
SourceKey(rk) == IF rk = "decision_id" THEN "unique_ID" ELSE rk

\* d.get(k): None when the key is absent.
dict_get(d, k) == IF k \in DOMAIN d.v THEN d.v[k] ELSE PyNone

\* d.get(k, default)
dict_get_default(d, k, default) == IF k \in DOMAIN d.v THEN d.v[k] ELSE default

Hit(score, payload) == [score |-> score, payload |-> payload]

\* A plausible slip: copy only the keys the payload has.
SparseResult(hit) ==
    IF hit.payload.t # "dict" THEN Raise("AttributeError")
    ELSE Return(PyDict(
        [rk \in {"score"} \cup {k \in ResultKeys \ {"score"} :
                                   SourceKey(k) \in DOMAIN hit.payload.v} |->
            IF rk = "score" THEN PyFloat(hit.score)
            ELSE hit.payload.v[SourceKey(rk)]]))

\* One iteration of the loop: hit.payload.get raises AttributeError when the
\* payload is not a mapping (None).
build_result(hit) ==
    IF hit.payload.t # "dict" THEN Raise("AttributeError")
    ELSE Return(PyDict(
        [score |-> PyFloat(hit.score),
         decision_id |-> dict_get(hit.payload, "unique_ID"),
         number |-> dict_get(hit.payload, "number"),
         ecli |-> dict_get(hit.payload, "ecli"),
         jurisdiction |-> dict_get(hit.payload, "jurisdiction"),
         chamber |-> dict_get(hit.payload, "chamber"),
         formation |-> dict_get(hit.payload, "formation"),
         type |-> dict_get(hit.payload, "type"),
         decision_date |-> dict_get(hit.payload, "decision_date"),
         localisation |-> dict_get(hit.payload, "localisation"),
         solution |-> dict_get(hit.payload, "solution"),
         theme |-> dict_get(hit.payload, "theme"),
         themes |-> dict_get(hit.payload, "themes"),
         publication |-> dict_get(hit.payload, "publication"),
         summary |-> dict_get(hit.payload, "summary"),
         zones |-> dict_get(hit.payload, "zones"),
         visa |-> dict_get(hit.payload, "visa"),
         rapprochements |-> dict_get(hit.payload, "rapprochements"),
         files |-> dict_get(hit.payload, "files")]))

RECURSIVE PrependLoop(_, _)
\* A plausible slip: results.insert(0, result) instead of results.append.
PrependLoop(hits, results) ==
    IF Len(hits) = 0 THEN Return(PyList(results))
    ELSE LET r == build_result(Head(hits)) IN
         IF r.raised THEN r
         ELSE PrependLoop(Tail(hits), <<r.value>> \o results)

RECURSIVE build_results(_, _)
\* results = []; for hit in search_result: ... results.append(result);
\* return results.  An exception in an iteration leaves the function.
build_results(hits, results) ==
    IF Len(hits) = 0 THEN Return(PyList(results))
    ELSE LET r == build_result(Head(hits)) IN
         IF r.raised THEN r
         ELSE build_results(Tail(hits), Append(results, r.value))

(***************************************************************************)
(* extract_decision_id_from_title: re.search with three patterns.          *)
(* A title is a sequence of characters; a pattern is a sequence of atoms.  *)
(***************************************************************************)
Digits == {"0", "1", "2", "3", "4", "5", "6", "7", "8", "9"}
Whitespace == {" ", "\t", "\n"}

\* re.IGNORECASE: both sides are case-folded before they are compared.
UpperCase == {"P", "O", "U", "R", "V", "I", "N", "C", "A", "S"}
Fold(c) ==
    CASE c = "P" -> "p" [] c = "O" -> "o" [] c = "U" -> "u" [] c = "R" -> "r"
      [] c = "V" -> "v" [] c = "I" -> "i" [] c = "N" -> "n" [] c = "C" -> "c"
      [] c = "A" -> "a" [] c = "S" -> "s" [] OTHER -> c

Lit(c) == [kind |-> "lit", ch |-> c]
AnyDigit == [kind |-> "digit", ch |-> ""]
WsStar == [kind |-> "ws*", ch |-> ""]
Open == [kind |-> "open", ch |-> ""]
Close == [kind |-> "close", ch |-> ""]

\* (\d{2}-\d{2}\.\d{3})
CaseNumberGroup ==
    <<Open, AnyDigit, AnyDigit, Lit("-"), AnyDigit, AnyDigit, Lit("."),
      AnyDigit, AnyDigit, AnyDigit, Close>>

PourvoiLit ==
    <<Lit("p"), Lit("o"), Lit("u"), Lit("r"), Lit("v"), Lit("o"), Lit("i"),
      Lit(" "), Lit("n"), Lit("°")>>
NumeroLit == <<Lit("n"), Lit("°")>>

\* A plausible slip: the bare pattern listed first.
PatternsBareFirst ==
    <<CaseNumberGroup,
      NumeroLit \o <<WsStar>> \o CaseNumberGroup,
      PourvoiLit \o <<WsStar>> \o CaseNumberGroup>>

patterns ==
    <<PourvoiLit \o <<WsStar>> \o CaseNumberGroup,
      NumeroLit \o <<WsStar>> \o CaseNumberGroup,
      CaseNumberGroup>>

NoMatch == [ok |-> FALSE, gs |-> 0, ge |-> 0]

\* The number of whitespace characters of s from position pos on.
RECURSIVE WsRun(_, _)
WsRun(s, pos) ==
    IF pos <= Len(s) /\ s[pos] \in Whitespace THEN 1 + WsRun(s, pos + 1) ELSE 0

RECURSIVE MatchHere(_, _, _, _)
RECURSIVE MatchStar(_, _, _, _, _)
\* \s* is greedy: the longest run first, then shorter ones.
MatchStar(pat, k, s, pos, n) ==
    LET r == MatchHere(pat, k + 1, s, pos + n) IN
    IF r.ok THEN r
    ELSE IF n = 0 THEN NoMatch
    ELSE MatchStar(pat, k, s, pos, n - 1)

\* Atoms k.. of pat matched against s from position pos; the group's bounds.
MatchHere(pat, k, s, pos) ==
    IF k > Len(pat) THEN [ok |-> TRUE, gs |-> 0, ge |-> 0]
    ELSE LET a == pat[k] IN
         CASE a.kind = "lit" ->
                IF pos <= Len(s) /\ Fold(s[pos]) = Fold(a.ch)
                THEN MatchHere(pat, k + 1, s, pos + 1) ELSE NoMatch
           [] a.kind = "digit" ->
                IF pos <= Len(s) /\ s[pos] \in Digits
                THEN MatchHere(pat, k + 1, s, pos + 1) ELSE NoMatch
           [] a.kind = "ws*" -> MatchStar(pat, k, s, pos, WsRun(s, pos))
           [] a.kind = "open" ->
                LET r == MatchHere(pat, k + 1, s, pos) IN
                IF r.ok THEN [r EXCEPT !.gs = pos] ELSE NoMatch
           [] a.kind = "close" ->
                LET r == MatchHere(pat, k + 1, s, pos) IN
                IF r.ok THEN [r EXCEPT !.ge = pos] ELSE NoMatch

\* re.search(pattern, title, re.IGNORECASE): the leftmost match.
RECURSIVE re_search(_, _, _)
re_search(pat, s, start) ==
    IF start > Len(s) + 1 THEN NoMatch
    ELSE LET r == MatchHere(pat, 1, s, start) IN
         IF r.ok THEN r ELSE re_search(pat, s, start + 1)

\* match.group(1)
group1(s, m) == PyStr(SubSeq(s, m.gs, m.ge - 1))

RECURSIVE first_match(_, _, _)
\* for pattern in patterns: match = re.search(...); if match: return group(1)
first_match(pats, i, title) ==
    IF i > Len(pats) THEN Return(PyNone)
    ELSE LET m == re_search(pats[i], title, 1) IN
         IF m.ok THEN Return(group1(title, m))
         ELSE first_match(pats, i + 1, title)

extract_decision_id_from_title(title) == first_match(patterns, 1, title)

(***************************************************************************)
(* Inputs drawn for the helpers.                                           *)
(***************************************************************************)
SeqsUpTo(S, n) == UNION {[1..k -> S] : k \in 0..n}

ThemeElems == {PyStr("A"), PyStr("B"), PyStr(""), PyInt(1)}

\* Values a payload can hold under "themes": JSON null, lists, scalars, {}.
ThemeValues ==
    {PyList(q) : q \in SeqsUpTo(ThemeElems, MaxThemes)}
    \cup {PyNone, PyStr(""), PyStr("single"), PyInt(0), PyInt(5),
          PyBool(FALSE), PyBool(TRUE), PyDict(EmptyMapping)}

RECURSIVE KeySets(_)
\* The sets of at most n payload keys.
KeySets(n) ==
    IF n = 0 THEN {{}}
    ELSE LET prev == KeySets(n - 1) IN
         prev \cup {S \cup {k} : S \in prev, k \in PayloadKeys}

PayloadValues == {PyStr("v"), PyNone, PyList(<<PyStr("A"), PyStr("B")>>)}

\* Metadata payloads: mappings with any few keys, or no mapping at all.
NormPayloads ==
    {PyDict(f) : f \in UNION {[S -> PayloadValues] : S \in KeySets(MaxKeys)}}
    \cup {PyNone}

NormScores == {3, 9}

NormHitLists ==
    {<<>>} \cup {<<Hit(sc, p)>> : sc \in NormScores, p \in NormPayloads}

FragCass == <<"C", "a", "s", "s", ".", " ">>
FragPourvoi == <<"p", "o", "u", "r", "v", "o", "i", " ", "n", "°", " ">>
FragNumero == <<"n", "°">>
FragCaseA == <<"1", "2", "-", "3", "4", ".", "5", "6", "7">>
FragCaseB == <<"8", "9", "-", "0", "1", ".", "2", "3", "4">>
FragUpper == <<"P", "O", "U", "R", "V", "O", "I", " ", "N", "°", "\t">>
FragShort == <<"1", "-", "2", "3", ".", "4", "5", "6">>
FragSpace == <<" ">>

Fragments ==
    {FragCass, FragPourvoi, FragNumero, FragCaseA, FragCaseB, FragUpper,
     FragShort, FragSpace}

RECURSIVE Concat(_)
Concat(qs) == IF Len(qs) = 0 THEN <<>> ELSE Head(qs) \o Concat(Tail(qs))

Titles == {Concat(qs) : qs \in SeqsUpTo(Fragments, MaxFrags)}

(***************************************************************************)
(* The application: main(), get_searcher(), MotivationBlocksSearcher.      *)
(***************************************************************************)
Sessions == 1..NumSessions

NoVector == [dimensions |-> 0]
QueryVector == [dimensions |-> VECTOR_SIZE]

QueryEmpty == <<>>
QueryBlank == <<" ", " ", " ">>
QueryText == <<"v", "o", "l">>
Queries == {QueryEmpty, QueryBlank, QueryText}

CollectionSets ==
    {{COLLECTION_NAME}, {"autre_collection"},
     {COLLECTION_NAME, "autre_collection"}}

\* Stored records of the index, as search search_result.
FullPayload ==
    PyDict([k \in PayloadKeys |->
               IF k = "themes" THEN PyList(<<PyStr("A"), PyStr("B")>>)
               ELSE IF k = "unique_ID" THEN PyStr("ABC123")
               ELSE PyStr("v")])
HitFull == Hit(9, FullPayload)
HitEmpty == Hit(5, PyDict(EmptyMapping))
HitBadThemes == Hit(5, PyDict([themes |-> PyList(<<PyInt(1)>>)]))
HitNoPayload == Hit(2, PyNone)
HitSamples == {HitFull, HitEmpty, HitBadThemes, HitNoPayload}

\* The index ranks its matches by descending score.
RankedLists ==
    {q \in SeqsUpTo(HitSamples, MaxIndex) :
        \A i \in 1..Len(q) - 1 : q[i].score >= q[i + 1].score}

Min(a, b) == IF a <= b THEN a ELSE b

\* client.search(..., limit=limit): the limit nearest matches.
TopK(ranked, k) == SubSeq(ranked, 1, Min(k, Len(ranked)))

Warning(text) == [kind |-> "warning", text |-> text]
Error(text) == [kind |-> "error", text |-> text]
Success(n) == [kind |-> "success", text |-> n]

\* if COLLECTION_NAME not in collection_names: raise Exception(...)
check_collection_exists(names) ==
    IF COLLECTION_NAME \notin names
    THEN Raise("Collection introuvable")
    ELSE Return(PyNone)

\* What one expander writes for a result, up to an exception of
\* format_themes_inline.
render_result(result) ==
    LET summary == IF Truthy(dict_get(result, "summary"))
                   THEN dict_get(result, "summary")
                   ELSE PyStr("Résumé non disponible")
        colA == <<summary,
                  dict_get_default(result, "decision_date", PyStr(SENTINEL)),
                  dict_get_default(result, "chamber", PyStr(SENTINEL))>>
        themes == format_themes_inline(dict_get(result, "themes"))
        colB == <<dict_get_default(result, "number", PyStr(SENTINEL)),
                  dict_get_default(result, "solution", PyStr(SENTINEL)),
                  create_decision_url(dict_get(result, "decision_id"))>>
    IN  IF themes.raised
        THEN [raised |-> TRUE, exc |-> themes.exc, written |-> colA]
        ELSE [raised |-> FALSE, exc |-> "",
              written |-> colA \o <<themes.value>> \o colB]

RECURSIVE render_loop(_, _, _)
\* for i, result in enumerate(results, 1): with st.expander(...): ...
render_loop(results, i, out) ==
    IF i > Len(results) THEN [raised |-> FALSE, exc |-> "", shown |-> out]
    ELSE LET r == render_result(results[i]) IN
         IF r.raised
         THEN [raised |-> TRUE, exc |-> r.exc, shown |-> Append(out, r.written)]
         ELSE render_loop(results, i + 1, Append(out, r.written))

AppInit ==
    /\ collections \in CollectionSets
    /\ cache = 0
    /\ lock = 0
    /\ handles = 0
    /\ checks = 0
    /\ clicks = 0
    /\ pc = [s \in Sessions |-> "idle"]
    /\ query = [s \in Sessions |-> QueryEmpty]
    /\ limit = [s \in Sessions |-> DEFAULT_LIMIT]
    /\ searcher = [s \in Sessions |-> 0]
    /\ vector = [s \in Sessions |-> NoVector]
    /\ calls = [s \in Sessions |-> <<>>]
    /\ search_result = [s \in Sessions |-> <<>>]
    /\ ret = [s \in Sessions |-> NotCalled]
    /\ messages = [s \in Sessions |-> <<>>]
    /\ shown = [s \in Sessions |-> <<>>]

Init ==
    /\ fnName = "main"
    /\ fnArg = PyNone
    /\ fnRet = NotCalled
    /\ AppInit

\* The user presses "Rechercher" with text q: `if search_button and query`,
\* `elif search_button and not query`.
Click(s) ==
    /\ pc[s] = "idle"
    /\ clicks < MaxClicks
    /\ \E q \in Queries :
        /\ query' = [query EXCEPT ![s] = q]
        /\ IF Len(q) > 0
           THEN /\ pc' = [pc EXCEPT ![s] = "get_searcher"]
                /\ messages' = [messages EXCEPT ![s] = <<>>]
           ELSE /\ pc' = [pc EXCEPT ![s] = "idle"]
                /\ messages' = [messages EXCEPT ![s] =
                                   <<Warning("Veuillez saisir une question juridique")>>]
    /\ clicks' = clicks + 1
    /\ limit' = [limit EXCEPT ![s] = MAIN_LIMIT]
    /\ searcher' = [searcher EXCEPT ![s] = 0]
    /\ vector' = [vector EXCEPT ![s] = NoVector]
    /\ calls' = [calls EXCEPT ![s] = <<>>]
    /\ search_result' = [search_result EXCEPT ![s] = <<>>]
    /\ ret' = [ret EXCEPT ![s] = NotCalled]
    /\ shown' = [shown EXCEPT ![s] = <<>>]
    /\ UNCHANGED <<fnVars, collections, cache, lock, handles, checks>>

\* get_searcher(): the cache is read first, without the lock.
CacheLookup(s) ==
    /\ pc[s] = "get_searcher"
    /\ IF cache # 0
       THEN /\ searcher' = [searcher EXCEPT ![s] = cache]
            /\ pc' = [pc EXCEPT ![s] = "embed"]
       ELSE /\ pc' = [pc EXCEPT ![s] = "lock_wait"]
            /\ UNCHANGED searcher
    /\ UNCHANGED <<fnVars, collections, cache, lock, handles, checks, clicks,
                   query, limit, vector, calls, search_result, ret, messages, shown>>

\* A cache miss takes the compute lock and reads the cache again.
AcquireLock(s) ==
    /\ pc[s] = "lock_wait"
    /\ lock = 0
    /\ IF cache # 0
       THEN /\ searcher' = [searcher EXCEPT ![s] = cache]
            /\ pc' = [pc EXCEPT ![s] = "embed"]
            /\ UNCHANGED lock
       ELSE /\ lock' = s
            /\ pc' = [pc EXCEPT ![s] = "construct"]
            /\ UNCHANGED searcher
    /\ UNCHANGED <<fnVars, collections, cache, handles, checks, clicks,
                   query, limit, vector, calls, search_result, ret, messages, shown>>

\* MotivationBlocksSearcher(): QdrantClient(...), then the collection check.
\* An exception leaves the cache empty and reaches main's except clause.
Construct(s) ==
    /\ pc[s] = "construct"
    /\ lock = s
    /\ handles' = handles + 1
    /\ checks' = checks + 1
    /\ lock' = 0
    /\ \E reachable \in BOOLEAN :
        LET r == IF reachable THEN check_collection_exists(collections)
                 ELSE Raise("ConnectionError")
        IN  IF r.raised
            THEN /\ ret' = [ret EXCEPT ![s] = r]
                 /\ pc' = [pc EXCEPT ![s] = "outcome"]
                 /\ UNCHANGED <<cache, searcher>>
            ELSE /\ cache' = handles + 1
                 /\ searcher' = [searcher EXCEPT ![s] = handles + 1]
                 /\ pc' = [pc EXCEPT ![s] = "embed"]
                 /\ UNCHANGED ret
    /\ UNCHANGED <<fnVars, collections, clicks, query, limit, vector, calls,
                   search_result, messages, shown>>

\* A plausible slip: an embedding failure is swallowed and the search runs.
EmbedSwallow(s) ==
    /\ pc[s] = "embed"
    /\ calls' = [calls EXCEPT ![s] = Append(@, "embed")]
    /\ \E ok \in BOOLEAN :
        /\ vector' = [vector EXCEPT ![s] = IF ok THEN QueryVector ELSE NoVector]
        /\ pc' = [pc EXCEPT ![s] = "search"]
        /\ UNCHANGED ret
    /\ UNCHANGED <<fnVars, collections, cache, lock, handles, checks, clicks,
                   query, limit, searcher, search_result, messages, shown>>

\* generate_embedding(query): one call of the embedding service.
Embed(s) ==
    /\ pc[s] = "embed"
    /\ calls' = [calls EXCEPT ![s] = Append(@, "embed")]
    /\ \E ok \in BOOLEAN :
        IF ok
        THEN /\ vector' = [vector EXCEPT ![s] = QueryVector]
             /\ pc' = [pc EXCEPT ![s] = "search"]
             /\ UNCHANGED ret
        ELSE /\ ret' = [ret EXCEPT ![s] = Raise("EmbeddingError")]
             /\ pc' = [pc EXCEPT ![s] = "outcome"]
             /\ UNCHANGED vector
    /\ UNCHANGED <<fnVars, collections, cache, lock, handles, checks, clicks,
                   query, limit, searcher, search_result, messages, shown>>

\* self.client.search(...), then the loop over the search_result, then return.
Search(s) ==
    /\ pc[s] = "search"
    /\ calls' = [calls EXCEPT ![s] = Append(@, "search")]
    /\ \E ok \in BOOLEAN, ranked \in RankedLists :
        IF ok
        THEN /\ search_result' = [search_result EXCEPT ![s] = TopK(ranked, limit[s])]
             /\ ret' = [ret EXCEPT ![s] = build_results(TopK(ranked, limit[s]), <<>>)]
        ELSE /\ ranked = <<>>
             /\ ret' = [ret EXCEPT ![s] = Raise("SearchError")]
             /\ UNCHANGED search_result
    /\ pc' = [pc EXCEPT ![s] = "outcome"]
    /\ UNCHANGED <<fnVars, collections, cache, lock, handles, checks, clicks,
                   query, limit, searcher, vector, messages, shown>>

\* The rest of main's try block and its except clause.
Render(s) ==
    /\ pc[s] = "outcome"
    /\ IF ret[s].raised
       THEN /\ messages' = [messages EXCEPT ![s] = <<Error(ret[s].exc)>>]
            /\ UNCHANGED shown
       ELSE IF Len(ret[s].value.v) > 0
       THEN LET d == render_loop(ret[s].value.v, 1, <<>>) IN
            /\ shown' = [shown EXCEPT ![s] = d.shown]
            /\ messages' = [messages EXCEPT ![s] =
                   <<Success(Len(ret[s].value.v))>>
                   \o (IF d.raised THEN <<Error(d.exc)>> ELSE <<>>)]
       ELSE /\ messages' = [messages EXCEPT ![s] =
                               <<Warning("Aucun résultat trouvé")>>]
            /\ UNCHANGED shown
    /\ pc' = [pc EXCEPT ![s] = "idle"]
    /\ UNCHANGED <<fnVars, collections, cache, lock, handles, checks, clicks,
                   query, limit, searcher, vector, calls, search_result, ret>>

Next ==
    \E s \in Sessions :
        \/ Click(s)
        \/ CacheLookup(s)
        \/ AcquireLock(s)
        \/ Construct(s)
        \/ Embed(s)
        \/ Search(s)
        \/ Render(s)

Spec == Init /\ [][Next]_vars

(***************************************************************************)
(* search_similar_decisions called directly, with a searcher at hand and   *)
(* a limit of the caller's choice.                                         *)
(***************************************************************************)
\* The session that makes the direct call.
Caller == CHOOSE s \in Sessions : \A t \in Sessions : s <= t

RetrieveInit ==
    /\ fnName = "search_similar_decisions"
    /\ fnArg = PyNone
    /\ fnRet = NotCalled
    /\ collections = {COLLECTION_NAME}
    /\ cache = 1
    /\ lock = 0
    /\ handles = 1
    /\ checks = 1
    /\ clicks = 0
    /\ pc = [s \in Sessions |-> IF s = Caller THEN "embed" ELSE "idle"]
    /\ \E q \in {QueryBlank, QueryText} :
          query = [s \in Sessions |-> IF s = Caller THEN q ELSE QueryEmpty]
    /\ \E k \in 1..MaxLimit :
          limit = [s \in Sessions |-> IF s = Caller THEN k ELSE DEFAULT_LIMIT]
    /\ searcher = [s \in Sessions |-> IF s = Caller THEN 1 ELSE 0]
    /\ vector = [s \in Sessions |-> NoVector]
    /\ calls = [s \in Sessions |-> <<>>]
    /\ search_result = [s \in Sessions |-> <<>>]
    /\ ret = [s \in Sessions |-> NotCalled]
    /\ messages = [s \in Sessions |-> <<>>]
    /\ shown = [s \in Sessions |-> <<>>]

NextRetrieve == \E s \in Sessions : Embed(s) \/ Search(s)

SpecRetrieve == RetrieveInit /\ [][NextRetrieve]_vars

(***************************************************************************)
(* The helpers, each applied once to a drawn argument.                     *)
(***************************************************************************)
AppQuiet ==
    /\ collections = {COLLECTION_NAME}
    /\ cache = 0
    /\ lock = 0
    /\ handles = 0
    /\ checks = 0
    /\ clicks = 0
    /\ pc = [s \in Sessions |-> "idle"]
    /\ query = [s \in Sessions |-> QueryEmpty]
    /\ limit = [s \in Sessions |-> DEFAULT_LIMIT]
    /\ searcher = [s \in Sessions |-> 0]
    /\ vector = [s \in Sessions |-> NoVector]
    /\ calls = [s \in Sessions |-> <<>>]
    /\ search_result = [s \in Sessions |-> <<>>]
    /\ ret = [s \in Sessions |-> NotCalled]
    /\ messages = [s \in Sessions |-> <<>>]
    /\ shown = [s \in Sessions |-> <<>>]

Called == fnRet.exc # "not called"

\* The loop of search_similar_decisions over a drawn search result.
NormalizeInit ==
    /\ fnName = "build_results"
    /\ fnArg \in NormHitLists
    /\ fnRet = NotCalled
    /\ AppQuiet

CallBuildResults ==
    /\ fnName = "build_results"
    /\ ~Called
    /\ fnRet' = build_results(fnArg, <<>>)
    /\ UNCHANGED <<fnName, fnArg, appVars>>

SpecNormalize == NormalizeInit /\ [][CallBuildResults]_vars

ThemesInit ==
    /\ fnName = "format_themes_inline"
    /\ fnArg \in ThemeValues
    /\ fnRet = NotCalled
    /\ AppQuiet

CallFormatThemes ==
    /\ fnName = "format_themes_inline"
    /\ ~Called
    /\ fnRet' = format_themes_inline(fnArg)
    /\ UNCHANGED <<fnName, fnArg, appVars>>

SpecThemes == ThemesInit /\ [][CallFormatThemes]_vars

ExtractInit ==
    /\ fnName = "extract_decision_id_from_title"
    /\ fnArg \in Titles
    /\ fnRet = NotCalled
    /\ AppQuiet

CallExtract ==
    /\ fnName = "extract_decision_id_from_title"
    /\ ~Called
    /\ fnRet' = extract_decision_id_from_title(fnArg)
    /\ UNCHANGED <<fnName, fnArg, appVars>>

SpecExtract == ExtractInit /\ [][CallExtract]_vars

(***************************************************************************)
(* Claims.                                                                 *)
(***************************************************************************)
IsBlank(q) == \A i \in 1..Len(q) : q[i] \in Whitespace

HasError(ms) == \E i \in 1..Len(ms) : ms[i].kind = "error"
ErrorCount(ms) == Cardinality({i \in 1..Len(ms) : ms[i].kind = "error"})

\* C1: a search request whose query is empty or only whitespace makes no
\* call of the embedding or the search service.
C1_BlankQueryNoRemoteCall ==
    \A s \in Sessions :
        IsBlank(query[s]) => calls[s] = <<>>

\* C2: the collection check runs before any search request is handled, and
\* a missing collection is never reported as the error of a request.
C2_CheckBeforeAnyQuery ==
    /\ checks > 0 => clicks = 0
    /\ \A s \in Sessions :
        /\ ~(ret[s].raised /\ ret[s].exc = "Collection introuvable")
        /\ Error("Collection introuvable") \notin
              {messages[s][i] : i \in 1..Len(messages[s])}

\* C3: in a retrieval the embedding service is called exactly once and the
\* search service at most once and only after a vector came back; when the
\* embedding fails nothing is retried, the search is not called and no
\* result record is produced.
C3_RetrievalCalls ==
    \A s \in Sessions :
        /\ calls[s] \in {<<>>, <<"embed">>, <<"embed", "search">>}
        /\ (pc[s] \in {"search", "outcome", "idle"} /\ searcher[s] # 0)
              => (Len(calls[s]) >= 1 /\ calls[s][1] = "embed")
        /\ (\E i \in 1..Len(calls[s]) : calls[s][i] = "search")
              => vector[s] = QueryVector
        /\ (calls[s] # <<>> /\ vector[s] = NoVector)
              => /\ calls[s] = <<"embed">>
                 /\ pc[s] \in {"outcome", "idle"}
                 /\ ret[s].raised
                 /\ ret[s].value = PyNone
                 /\ search_result[s] = <<>>
                 /\ shown[s] = <<>>

\* C3's case: the embedding call of a retrieval failed and the retrieval
\* ended.
C3_Witness ==
    \E s \in Sessions :
        /\ calls[s] = <<"embed">>
        /\ vector[s] = NoVector
        /\ pc[s] = "outcome"
        /\ ret[s].raised

\* C4: the connection handle is constructed at most once per process, and
\* the collection check is made at most once.
C4_SingleHandle == handles <= 1 /\ checks <= 1

\* Once a searcher is cached, no later step constructs a handle, repeats the
\* collection check or replaces the cached searcher.
OnceCachedNoNewSetup ==
    [][cache # 0 =>
          (handles' = handles /\ checks' = checks /\ cache' = cache)]_vars

\* C5: a request in which an exception was raised shows exactly one error
\* message and displays no result.
C5_FailureOneErrorNoResults ==
    \A s \in Sessions :
        /\ (pc[s] = "idle" /\ ret[s].raised) => HasError(messages[s])
        /\ HasError(messages[s])
              => (ErrorCount(messages[s]) = 1 /\ shown[s] = <<>>)

\* The fixed output fields of a Result Record.
FixedOutputFields ==
    {"decision_id", "number", "jurisdiction", "chamber", "formation", "type",
     "decision_date", "localisation", "solution", "theme", "themes",
     "publication", "summary", "zones", "visa", "rapprochements", "files"}

\* C6: every record search_similar_decisions returns has every fixed output
\* field as a key, whatever keys the hit's payload has.
C6_EveryFieldPresent ==
    (Called /\ ~fnRet.raised) =>
        /\ Len(fnRet.value.v) = Len(fnArg)
        /\ \A i \in 1..Len(fnRet.value.v) :
              FixedOutputFields \subseteq DOMAIN fnRet.value.v[i].v

\* C6's case: a record was built from a hit whose payload is empty.
C6_Witness ==
    /\ Called
    /\ ~fnRet.raised
    /\ Len(fnRet.value.v) = 1
    /\ fnArg[1].payload = PyDict(EmptyMapping)

\* The fields main writes with result.get(key, 'Non renseigné').
DisplayedWithDefault == {"decision_date", "chamber", "number", "solution"}

\* C7: a field whose key the payload lacks holds the "not provided"
\* sentinel in the record, and so does the value handed to the display.
C7_AbsentFieldIsSentinel ==
    (Called /\ ~fnRet.raised) =>
        \A i \in 1..Len(fnRet.value.v) :
            \A rk \in FixedOutputFields :
                SourceKey(rk) \notin DOMAIN fnArg[i].payload.v =>
                    /\ fnRet.value.v[i].v[rk] = PyStr(SENTINEL)
                    /\ rk \in DisplayedWithDefault =>
                          dict_get_default(fnRet.value.v[i], rk, PyStr(SENTINEL))
                              = PyStr(SENTINEL)

\* What the claim says format_themes_inline returns.
ThemesAsClaimed(x) ==
    IF x.t = "list"
    THEN IF Len(x.v) > 0 THEN JoinStrings(", ", x.v) ELSE SENTINEL
    ELSE IF x.t = "None" THEN SENTINEL
    ELSE py_str(x)

\* C9: format_themes_inline never raises; a non-empty list gives its
\* elements joined with ", ", an empty list or None the sentinel, any other
\* value its string form.
C9_FormatThemesTotal ==
    Called =>
        /\ ~fnRet.raised
        /\ fnRet.value = PyStr(ThemesAsClaimed(fnArg))

\* A case number DD-DD.DDD stands at position i of s.
ShapeAt(s, i) ==
    /\ i >= 1
    /\ i + 8 <= Len(s)
    /\ \A j \in {0, 1, 3, 4, 6, 7, 8} : s[i + j] \in Digits
    /\ s[i + 2] = "-"
    /\ s[i + 5] = "."

\* The word (lower case) stands at position p of s, whatever the case.
WordAt(word, s, p) ==
    /\ p + Len(word) - 1 <= Len(s)
    /\ \A j \in 1..Len(word) : Fold(s[p + j - 1]) = word[j]

\* The places <<p, i>>: the word at p, then whitespace, then a case number
\* at i.
Occurrences(word, s) ==
    {pi \in (1..Len(s) + 1) \X (1..Len(s)) :
        /\ WordAt(word, s, pi[1])
        /\ pi[2] >= pi[1] + Len(word)
        /\ \A j \in pi[1] + Len(word)..pi[2] - 1 : s[j] \in Whitespace
        /\ ShapeAt(s, pi[2])}

Leftmost(occ) == CHOOSE pi \in occ : \A other \in occ : pi[1] <= other[1]

WordPourvoi == <<"p", "o", "u", "r", "v", "o", "i", " ", "n", "°">>
WordNumero == <<"n", "°">>

\* The identifier the three patterns give in priority order, or None.
IdAsClaimed(s) ==
    LET a == Occurrences(WordPourvoi, s)
        b == Occurrences(WordNumero, s)
        c == Occurrences(<<>>, s)
        first == IF a # {} THEN a ELSE IF b # {} THEN b ELSE c
    IN  IF first = {} THEN PyNone
        ELSE LET i == Leftmost(first)[2] IN PyStr(SubSeq(s, i, i + 8))

\* C10: extract_decision_id_from_title returns the case number captured by
\* the first of the three patterns, in priority order, that matches anywhere
\* in the title, and None, without raising, when none matches.
C10_FirstPatternWins ==
    Called =>
        /\ ~fnRet.raised
        /\ fnRet.value = IdAsClaimed(fnArg)
        /\ fnRet.value # PyStr("")

\* C10's case: a case number opens the title and "pourvoi n°" introduces
\* another one later; the later one is returned.
C10_Witness ==
    /\ Called
    /\ ShapeAt(fnArg, 1)
    /\ Occurrences(WordPourvoi, fnArg) # {}
    /\ fnRet.value = PyStr(FragCaseB)
    /\ SubSeq(fnArg, 1, 9) = FragCaseA

\* C8: a successful retrieval returns one record per hit, in the hits'
\* order, record i carrying hit i's score and payload values, and never more
\* records than the limit.
C8_OneRecordPerHit ==
    \A s \in Sessions :
        (pc[s] = "outcome" /\ ~ret[s].raised /\ Len(calls[s]) = 2) =>
            LET rs == ret[s].value.v
                hs == search_result[s]
            IN  /\ Len(rs) = Len(hs)
                /\ Len(rs) <= limit[s]
                /\ \A i \in 1..Len(rs) :
                      /\ rs[i].v["score"] = PyFloat(hs[i].score)
                      /\ \A rk \in FixedOutputFields :
                            SourceKey(rk) \in DOMAIN hs[i].payload.v =>
                                rs[i].v[rk] = hs[i].payload.v[SourceKey(rk)]

\* C8's case: two different hits came back for a limit of two, and two
\* records were returned.
C8_Witness ==
    \E s \in Sessions :
        /\ pc[s] = "outcome"
        /\ ~ret[s].raised
        /\ search_result[s] = <<HitFull, HitEmpty>>
        /\ Len(ret[s].value.v) = 2
        /\ limit[s] = 2

====
